---- MODULE Spec2Model ----
(***************************************************************************)
(* Model of haiyon/fitobj: the flatten / unflatten transform engine        *)
(* (package fitter) and the batch coordinator (package processor).         *)
(*                                                                         *)
(* Strings are sequences of one-character tokens (<<"a", ".", "0">> is     *)
(* "a.0"); a multi-letter word such as "person" is one token, which is     *)
(* exact as long as no two word tokens are adjacent.  Go values of type    *)
(* any are tagged records: S(x) a scalar, Nil the nil interface (JSON      *)
(* null and the zero value of a fresh slice slot), M(f) a map[string]any   *)
(* with f a function from keys to values, A(q) a []any.  Panic stands for  *)
(* a run-time panic of the call.  Go ranges over a map in an unspecified   *)
(* order: operators that range over a map return the SET of the results    *)
(* that the possible orders give.                                          *)
(***************************************************************************)
EXTENDS Integers, Sequences, FiniteSets, TLC

VARIABLES
    pc,       \* position of the transform harness / of the batch main goroutine
    doc,      \* nested input document of FlattenMapWithOptions
    fopts,    \* FlattenOptions of the call
    uopts,    \* UnflattenOptions of the call
    flat,     \* flat map: result of flatten, input of unflatten
    out,      \* result of UnflattenMapWithOptions
    \* ProcessDirectoryWithOptions
    inputDir,       \* what os.Stat / MkdirAll / os.ReadDir meet: "ok" or the failing step
    jsonFiles,      \* the .json files of the input directory, a sequence of file records
    unflatten,      \* the unflatten argument
    workers,        \* options.Workers
    mpc,            \* position of the calling goroutine
    sent,           \* loop counter of the goroutine-start loop, then of the send loop
    filesChan,      \* buffered content of filesChan
    filesClosed,    \* close(filesChan) done
    resultsChan,    \* buffered content of resultsChan
    resultsClosed,  \* close(resultsChan) done
    wg,             \* counter of the sync.WaitGroup
    wpc,            \* position of every worker goroutine
    wfile,          \* the file a worker holds
    werr,           \* the error ProcessFileWithOptions returned to a worker
    cpc,            \* position of the goroutine that closes resultsChan
    successCount,
    errorCount,
    outputs,        \* the output files written so far
    ret,            \* the error value the call returned
    crashed,        \* an unrecovered panic ended the process
    \* package i18n
    ipc,            \* position of the caller of the i18n helpers
    jsonObj,        \* the document RemoveKeysFromPath works on (its value argument)
    separator,      \* the separator argument of RemoveKeysFromPath
    keyPath,        \* the keyPath argument of the last call
    before,         \* the document as it was when the last call began
    removed,        \* what the last call returned
    sourceKeys,     \* the sourceKeys argument of CompareKeys
    jsonKeys,       \* the jsonKeys argument of CompareKeys
    missingInJSON,  \* first result of CompareKeys
    unusedInSource, \* second result of CompareKeys
    \* package api
    srvOptions,     \* the Options the server was started with
    request,        \* the decoded Request
    response        \* what ProcessHandler wrote

fitVars == <<pc, doc, fopts, uopts, flat, out>>

batchVars == <<inputDir, jsonFiles, unflatten, workers, mpc, sent, filesChan,
               filesClosed, resultsChan, resultsClosed, wg, wpc, wfile, werr, cpc,
               successCount, errorCount, outputs, ret, crashed>>

i18nVars == <<ipc, jsonObj, separator, keyPath, before, removed, sourceKeys,
              jsonKeys, missingInJSON, unusedInSource>>

apiVars == <<srvOptions, request, response>>

vars == <<fitVars, batchVars, i18nVars, apiVars>>

-----------------------------------------------------------------------------
(* Values of type any *)

S(x) == [k |-> "s", v |-> x]
M(f) == [k |-> "m", v |-> f]
A(q) == [k |-> "a", v |-> q]
Nil == [k |-> "n", v |-> <<>>]
Panic == [k |-> "panic", v |-> <<>>]
None == [k |-> "none", v |-> <<>>]

IsMap(x) == x.k = "m"
IsArr(x) == x.k = "a"

EmptyMap == M(<<>>)
EmptyArr == A(<<>>)

\* m[key] = val on a map[string]any
MapPut(m, key, val) ==
    M([x \in (DOMAIN m.v) \cup {key} |-> IF x = key THEN val ELSE m.v[x]])

Has(m, key) == key \in DOMAIN m.v

-----------------------------------------------------------------------------
(* Strings, strconv and strings.Split *)

Separator == "."

Digits == {"0", "1", "2", "3", "4", "5", "6", "7", "8", "9"}

DigitValue(c) ==
    CASE c = "0" -> 0 [] c = "1" -> 1 [] c = "2" -> 2 [] c = "3" -> 3
      [] c = "4" -> 4 [] c = "5" -> 5 [] c = "6" -> 6 [] c = "7" -> 7
      [] c = "8" -> 8 [] c = "9" -> 9

DigitChar(n) ==
    CASE n = 0 -> "0" [] n = 1 -> "1" [] n = 2 -> "2" [] n = 3 -> "3"
      [] n = 4 -> "4" [] n = 5 -> "5" [] n = 6 -> "6" [] n = 7 -> "7"
      [] n = 8 -> "8" [] n = 9 -> "9"

RECURSIVE ParseDigits(_, _)
ParseDigits(s, acc) ==
    IF s = <<>> THEN acc
    ELSE ParseDigits(Tail(s), acc * 10 + DigitValue(Head(s)))

\* strconv.Atoi: an optional sign, then one or more decimal digits
Atoi(s) ==
    LET signed == s # <<>> /\ Head(s) \in {"+", "-"}
        body == IF signed THEN Tail(s) ELSE s
    IN  IF body = <<>> \/ \E i \in 1..Len(body) : body[i] \notin Digits
        THEN [ok |-> FALSE, n |-> 0]
        ELSE [ok |-> TRUE,
              n |-> IF signed /\ Head(s) = "-"
                    THEN 0 - ParseDigits(body, 0)
                    ELSE ParseDigits(body, 0)]

\* strconv.Itoa of a slice index (never negative)
RECURSIVE Itoa(_)
Itoa(n) ==
    IF n < 10 THEN <<DigitChar(n)>>
    ELSE Itoa(n \div 10) \o <<DigitChar(n % 10)>>

\* index of the first separator in s, 0 when there is none
SepIndex(s) ==
    IF \E i \in 1..Len(s) : s[i] = Separator
    THEN CHOOSE i \in 1..Len(s) :
            s[i] = Separator /\ \A j \in 1..(i - 1) : s[j] # Separator
    ELSE 0

\* strings.Split(key, options.Separator)
RECURSIVE Split(_)
Split(s) ==
    LET i == SepIndex(s)
    IN  IF i = 0 THEN <<s>>
        ELSE <<SubSeq(s, 1, i - 1)>> \o Split(SubSeq(s, i + 1, Len(s)))

\* number of consecutive digits of s from position i on
RECURSIVE DigitRun(_, _)
DigitRun(s, i) ==
    IF i <= Len(s) /\ s[i] \in Digits THEN 1 + DigitRun(s, i + 1) ELSE 0

-----------------------------------------------------------------------------
(* package fitter: FlattenMapWithOptions *)

DefaultFlattenOptions ==
    [MaxDepth |-> -1, IncludeArrayIndices |-> TRUE, ArrayFormatting |-> "index"]

RECURSIVE flatten(_, _, _, _, _)
RECURSIVE flattenRange(_, _, _, _, _, _)
RECURSIVE flattenArray(_, _, _, _, _, _)

\* the depth check stopping one level early
depthLimitReached_AtLimit(options, depth) ==
    options.MaxDepth >= 0 /\ depth >= options.MaxDepth

\* the depth check at the head of flatten
depthLimitReached(options, depth) ==
    options.MaxDepth >= 0 /\ depth > options.MaxDepth

\* the key of a map entry below prefix
fullKey(prefix, key) ==
    IF prefix = <<>> THEN key ELSE prefix \o <<Separator>> \o key

\* indexedKey counting the elements from one
indexedKey_OneBased(prefix, i, options) ==
    IF options.ArrayFormatting = "bracket"
    THEN prefix \o <<"[">> \o Itoa(i + 1) \o <<"]">>
    ELSE prefix \o <<Separator>> \o Itoa(i + 1)

\* the key of the array element with (0-based) index i below prefix
indexedKey(prefix, i, options) ==
    IF options.ArrayFormatting = "bracket"
    THEN prefix \o <<"[">> \o Itoa(i) \o <<"]">>
    ELSE prefix \o <<Separator>> \o Itoa(i)

\* flatten(obj, prefix, result, options, depth): the result maps the call can
\* leave, one per order in which the maps are ranged over
flatten(obj, prefix, result, options, depth) ==
    IF depthLimitReached(options, depth)
    THEN IF prefix # <<>>
         THEN {MapPut(result, prefix, obj)}
         ELSE {M([x \in (DOMAIN result.v) \cup (DOMAIN obj.v) |->
                    IF x \in DOMAIN obj.v THEN obj.v[x] ELSE result.v[x]])}
    ELSE flattenRange(obj, DOMAIN obj.v, prefix, result, options, depth)

\* the loop "for key, value := range obj" of flatten; todo = keys not yet visited
flattenRange(obj, todo, prefix, result, options, depth) ==
    IF todo = {} THEN {result}
    ELSE UNION { LET value == obj.v[key]
                     step ==
                        IF IsMap(value)
                        THEN IF DOMAIN value.v = {}
                             THEN {MapPut(result, fullKey(prefix, key), value)}
                             ELSE flatten(value, fullKey(prefix, key), result, options, depth + 1)
                        ELSE IF IsArr(value)
                        THEN IF Len(value.v) = 0
                             THEN {MapPut(result, fullKey(prefix, key), value)}
                             ELSE IF options.IncludeArrayIndices
                             THEN flattenArray(value, 1, fullKey(prefix, key), result, options, depth)
                             ELSE {MapPut(result, fullKey(prefix, key), value)}
                        ELSE {MapPut(result, fullKey(prefix, key), value)}
                 IN  UNION { flattenRange(obj, todo \ {key}, prefix, r, options, depth)
                             : r \in step }
               : key \in todo }

\* flattenArray storing a nested sequence whole instead of descending into it
flattenArray_StoresNested(arr, pos, prefix, result, options, depth) ==
    IF pos > Len(arr.v) THEN {result}
    ELSE LET item == arr.v[pos]
             step ==
                IF IsMap(item) /\ DOMAIN item.v # {}
                THEN flatten(item, indexedKey(prefix, pos - 1, options), result, options, depth + 1)
                ELSE {MapPut(result, indexedKey(prefix, pos - 1, options), item)}
         IN  UNION { flattenArray(arr, pos + 1, prefix, r, options, depth) : r \in step }

\* flattenArray from the element at (1-based) position pos on
flattenArray(arr, pos, prefix, result, options, depth) ==
    IF pos > Len(arr.v) THEN {result}
    ELSE LET item == arr.v[pos]
             step ==
                IF IsMap(item)
                THEN IF DOMAIN item.v = {}
                     THEN {MapPut(result, indexedKey(prefix, pos - 1, options), item)}
                     ELSE flatten(item, indexedKey(prefix, pos - 1, options), result, options, depth + 1)
                ELSE IF IsArr(item)
                THEN IF Len(item.v) = 0
                     THEN {MapPut(result, indexedKey(prefix, pos - 1, options), item)}
                     ELSE flattenArray(item, 1, indexedKey(prefix, pos - 1, options), result, options, depth + 1)
                ELSE {MapPut(result, indexedKey(prefix, pos - 1, options), item)}
         IN  UNION { flattenArray(arr, pos + 1, prefix, r, options, depth) : r \in step }

FlattenMapWithOptions(obj, prefix, options) ==
    flatten(obj, prefix, EmptyMap, options, 0)

FlattenMap(obj, prefix) == FlattenMapWithOptions(obj, prefix, DefaultFlattenOptions)

-----------------------------------------------------------------------------
(* package fitter: UnflattenMapWithOptions *)

DefaultUnflattenOptions ==
    [DetectArrays |-> TRUE, SupportBracketNotation |-> TRUE]

\* convertBracketToDot replacing the first match only
RECURSIVE convertBracketToDot_FirstOnly(_)
convertBracketToDot_FirstOnly(key) ==
    IF key = <<>> THEN <<>>
    ELSE LET n == DigitRun(key, 2)
         IN  IF Head(key) = "[" /\ n >= 1 /\ Len(key) >= n + 2 /\ key[n + 2] = "]"
             THEN <<Separator>> \o SubSeq(key, 2, n + 1)
                    \o SubSeq(key, n + 3, Len(key))
             ELSE <<Head(key)>> \o convertBracketToDot_FirstOnly(Tail(key))

\* regexp \[([0-9]+)\] replaced everywhere by separator + "$1"
RECURSIVE convertBracketToDot(_)
convertBracketToDot(key) ==
    IF key = <<>> THEN <<>>
    ELSE LET n == DigitRun(key, 2)
         IN  IF Head(key) = "[" /\ n >= 1 /\ Len(key) >= n + 2 /\ key[n + 2] = "]"
             THEN <<Separator>> \o SubSeq(key, 2, n + 1)
                    \o convertBracketToDot(SubSeq(key, n + 3, Len(key)))
             ELSE <<Head(key)>> \o convertBracketToDot(Tail(key))

\* the key under which the preprocessing loop stores the entry of key k
processedKey(k, options) ==
    IF options.SupportBracketNotation THEN convertBracketToDot(k) ELSE k

\* the preprocessing loop: processedObj[convert(k)] = v for every entry; entries
\* whose converted keys coincide overwrite each other in the order of the range
RECURSIVE processedObjs(_, _, _, _)
processedObjs(obj, options, todo, acc) ==
    IF todo = {} THEN {acc}
    ELSE LET nk == CHOOSE x \in todo : TRUE
         IN  UNION { processedObjs(obj, options, todo \ {nk}, MapPut(acc, nk, obj.v[k]))
                     : k \in {kk \in DOMAIN obj.v : processedKey(kk, options) = nk} }

\* make([]any, n) followed by the "ensure capacity" loop up to index idx
RECURSIVE Pad(_, _)
Pad(arr, idx) == IF Len(arr) <= idx THEN Pad(Append(arr, Nil), idx) ELSE arr

\* the array an index goes into: the one found at obj[part], else a new one
arrayAt(obj, part) ==
    IF Has(obj, part) /\ IsArr(obj.v[part]) THEN obj.v[part].v ELSE <<>>

RECURSIVE assignToNested(_, _, _, _)
assignToNested(obj, parts, value, options) ==
    IF obj = Panic THEN Panic
    ELSE IF Len(parts) = 0 THEN obj
    ELSE LET part == parts[1] IN
    IF Len(parts) = 1 THEN MapPut(obj, part, value)
    ELSE
      LET conv == IF options.DetectArrays THEN Atoi(parts[2])
                  ELSE [ok |-> FALSE, n |-> 0]
          nextIsNumeric == conv.ok
          nextIndex == IF conv.ok THEN conv.n ELSE -1
      IN
      IF nextIsNumeric
      THEN LET reuse == Has(obj, part) /\ IsArr(obj.v[part])
           IN  \* make([]any, nextIndex+1) panics on a negative length and
               \* arr[nextIndex] panics on a negative index
               IF (~reuse /\ nextIndex + 1 < 0) \/ nextIndex < 0 THEN Panic
               ELSE LET arr == Pad(arrayAt(obj, part), nextIndex)
                        slot == arr[nextIndex + 1]
                        nextObj == IF slot = Nil THEN EmptyMap
                                   ELSE IF IsMap(slot) THEN slot
                                   ELSE EmptyMap
                        sub == assignToNested(nextObj, SubSeq(parts, 3, Len(parts)),
                                              value, options)
                    IN  IF sub = Panic THEN Panic
                        ELSE MapPut(obj, part, A([arr EXCEPT ![nextIndex + 1] = sub]))
      ELSE LET nextObj == IF Has(obj, part) /\ IsMap(obj.v[part])
                          THEN obj.v[part] ELSE EmptyMap
               sub == assignToNested(nextObj, Tail(parts), value, options)
           IN  IF sub = Panic THEN Panic ELSE MapPut(obj, part, sub)

\* the loop "for key, value := range processedObj": items pair the keys still
\* to come with the result built so far, one item per order of the keys
RECURSIVE assignRange(_, _, _, _)
assignRange(processed, n, items, options) ==
    IF n = 0 THEN {it.r : it \in items}
    ELSE assignRange(processed, n - 1,
            UNION { { [left |-> it.left \ {key},
                       r |-> assignToNested(it.r, Split(key), processed.v[key], options)]
                      : key \in it.left }
                    : it \in items },
            options)

IntKeys(m) == {key \in DOMAIN m.v : Atoi(key).ok}

MaxOf(ns) == CHOOSE n \in ns : \A other \in ns : other <= n

\* shouldConvertToArray without its test for the empty map
shouldConvertToArray_NoEmptyTest(m) ==
    IF IntKeys(m) # DOMAIN m.v THEN FALSE
    ELSE LET maxIdx == MaxOf({-1} \cup {Atoi(key).n : key \in IntKeys(m)})
         IN  \A i \in 0..maxIdx : Itoa(i) \in DOMAIN m.v

shouldConvertToArray(m) ==
    IF DOMAIN m.v = {} THEN FALSE
    ELSE IF IntKeys(m) # DOMAIN m.v THEN FALSE
    ELSE LET maxIdx == MaxOf({-1} \cup {Atoi(key).n : key \in IntKeys(m)})
         IN  \A i \in 0..maxIdx : Itoa(i) \in DOMAIN m.v

\* the filling loop of convertMapToArray from index i on; keys that parse to
\* the same index overwrite each other in the order of the range
RECURSIVE fillArray(_, _, _, _)
fillArray(m, i, maxIdx, arr) ==
    IF i > maxIdx THEN {A(arr)}
    ELSE LET writers == {key \in IntKeys(m) : Atoi(key).n = i}
         IN  IF writers = {} THEN fillArray(m, i + 1, maxIdx, Append(arr, Nil))
             ELSE UNION { fillArray(m, i + 1, maxIdx, Append(arr, m.v[key]))
                          : key \in writers }

convertMapToArray(m) ==
    LET maxIdx == MaxOf({-1} \cup {Atoi(key).n : key \in IntKeys(m)})
    IN  \* arr[idx] = v with a negative idx is an index out of range
        IF \E key \in IntKeys(m) : Atoi(key).n < 0 THEN {Panic}
        ELSE fillArray(m, 0, maxIdx, <<>>)

RECURSIVE convertNumericMapsToArrays(_)
RECURSIVE convertRange(_, _)
RECURSIVE convertItems(_, _)

\* a map value or array item after the pass: converted below, then promoted
promote(value) ==
    UNION { IF pm = Panic THEN {Panic}
            ELSE IF shouldConvertToArray(pm) THEN convertMapToArray(pm)
            ELSE {pm}
            : pm \in convertNumericMapsToArrays(value) }

convertNumericMapsToArrays(obj) == convertRange(obj, DOMAIN obj.v)

\* the loop "for key, value := range obj"; every key is rewritten on its own,
\* so the order of the range does not show and one order is taken
convertRange(obj, todo) ==
    IF todo = {} THEN {obj}
    ELSE LET key == CHOOSE x \in todo : TRUE
             value == obj.v[key]
             repl == IF IsMap(value) THEN promote(value)
                     ELSE IF IsArr(value) THEN convertItems(value.v, 1)
                     ELSE {value}
         IN  UNION { IF r = Panic THEN {Panic}
                     ELSE convertRange(MapPut(obj, key, r), todo \ {key})
                     : r \in repl }

\* the loop "for i, item := range val" over an array, from position pos on
convertItems(val, pos) ==
    IF pos > Len(val) THEN {A(val)}
    ELSE IF IsMap(val[pos])
    THEN UNION { IF r = Panic THEN {Panic}
                 ELSE convertItems([val EXCEPT ![pos] = r], pos + 1)
                 : r \in promote(val[pos]) }
    ELSE convertItems(val, pos + 1)

\* result after the two loops of UnflattenMapWithOptions: the keys are
\* preprocessed, then every entry is assigned, in any order of the ranges
assignedResults(obj, options) ==
    LET newKeys == {processedKey(key, options) : key \in DOMAIN obj.v}
    IN  UNION { assignRange(p, Cardinality(DOMAIN p.v),
                            {[left |-> DOMAIN p.v, r |-> EmptyMap]}, options)
                : p \in processedObjs(obj, options, newKeys, EmptyMap) }

\* the final pass run whether or not arrays are to be detected
finalPass_Always(result, options) ==
    IF result = Panic THEN {Panic} ELSE convertNumericMapsToArrays(result)

\* the end of UnflattenMapWithOptions: numeric maps become arrays when
\* DetectArrays is set
finalPass(result, options) ==
    IF result = Panic THEN {Panic}
    ELSE IF options.DetectArrays THEN convertNumericMapsToArrays(result)
    ELSE {result}

UnflattenMapWithOptions(obj, options) ==
    UNION { finalPass(r, options) : r \in assignedResults(obj, options) }

UnflattenMap(obj) == UnflattenMapWithOptions(obj, DefaultUnflattenOptions)

-----------------------------------------------------------------------------
(* Inputs of the transform calls *)

MaxNodes == 3      \* values (containers and leaves) below the root of a document
MaxDepthOpt == 1   \* largest MaxDepth option tried
MaxFlatKeys == 2   \* entries of a flat map handed to unflatten directly

Leaves == {S("x"), S("y"), EmptyMap, EmptyArr}

\* keys of the maps of an input document, in a fixed order
DocKeys == << <<"a">>, <<"b">>, <<"0">> >>

RECURSIVE SumSizes(_, _)
RECURSIVE Size(_)
SumSizes(q, i) == IF i > Len(q) THEN 0 ELSE Size(q[i]) + SumSizes(q, i + 1)

RECURSIVE MapSize(_, _)
MapSize(m, todo) ==
    IF todo = {} THEN 0
    ELSE LET key == CHOOSE x \in todo : TRUE
         IN  Size(m.v[key]) + MapSize(m, todo \ {key})

\* number of values in v, v included
Size(v) ==
    IF IsMap(v) THEN 1 + MapSize(v, DOMAIN v.v)
    ELSE IF IsArr(v) THEN 1 + SumSizes(v.v, 1)
    ELSE 1

RECURSIVE Vals(_, _)
RECURSIVE ListsOf(_, _)
RECURSIVE MapsOf(_, _, _)

\* values of nesting depth <= d with at most n nodes
Vals(d, n) ==
    IF n < 1 THEN {}
    ELSE Leaves
         \cup (IF d < 1 THEN {}
               ELSE {A(q) : q \in ListsOf(d - 1, n - 1) \ {<<>>}}
                    \cup {M(f) : f \in MapsOf(d - 1, n - 1, 1) \ {<<>>}})

ListsOf(d, n) ==
    {<<>>} \cup UNION { { <<v>> \o rest : rest \in ListsOf(d, n - Size(v)) }
                        : v \in Vals(d, n) }

MapsOf(d, n, i) ==
    {<<>>} \cup UNION { UNION { { (DocKeys[j] :> v) @@ rest
                                  : rest \in MapsOf(d, n - Size(v), j + 1) }
                                : v \in Vals(d, n) }
                        : j \in i..Len(DocKeys) }

\* the example document of the README
ReadmeDoc ==
    M(<<"person">> :>
        M((<<"name">> :> S("John Doe"))
          @@ (<<"addresses">> :>
                A(<< M((<<"type">> :> S("home"))
                       @@ (<<"street">> :> S("123 Main St"))) >>))))

\* the document {a: {b: {c: 1}}}
MaxDepthDoc == M(<<"a">> :> M(<<"b">> :> M(<<"c">> :> S("1"))))

\* keys that hold a separator or a bracketed index, and the empty key
OddKeys == {<<"a", ".", "b">>, <<"a", "[", "0", "]">>, <<>>}

\* documents with one of the odd keys at the top, alone or beside the key a
OddDocs ==
    {M(key :> v) : key \in OddKeys, v \in Vals(MaxNodes - 2, MaxNodes - 1)}
    \cup {M((key :> leaf) @@ (<<"a">> :> v))
          : key \in OddKeys, leaf \in Leaves, v \in Vals(MaxNodes - 2, MaxNodes - 1)}

\* a nesting depth of n needs n values, so MaxNodes bounds the depth as well
Docs ==
    {M(f) : f \in MapsOf(MaxNodes - 1, MaxNodes, 1)}
    \cup OddDocs \cup {ReadmeDoc, MaxDepthDoc}

FlattenOptionSet ==
    {DefaultFlattenOptions,
     [DefaultFlattenOptions EXCEPT !.ArrayFormatting = "bracket"],
     [DefaultFlattenOptions EXCEPT !.IncludeArrayIndices = FALSE]}
    \cup {[DefaultFlattenOptions EXCEPT !.MaxDepth = d] : d \in 0..MaxDepthOpt}

UnflattenOptionSet ==
    [DetectArrays : BOOLEAN, SupportBracketNotation : BOOLEAN]

\* the option pairs of a flatten-then-unflatten run: one side at its default
OptionPairs ==
    {<<f, DefaultUnflattenOptions>> : f \in FlattenOptionSet}
    \cup {<<DefaultFlattenOptions, u>> : u \in UnflattenOptionSet}
    \cup {<<[DefaultFlattenOptions EXCEPT !.ArrayFormatting = "bracket"],
            [DefaultUnflattenOptions EXCEPT !.SupportBracketNotation = FALSE]>>}

\* flat keys handed to unflatten directly: the head a and up to two more
\* segments (an index, a negative index, a name, a bracketed index)
KeyTails ==
    {<<".", "0">>, <<".", "1">>, <<".", "2">>, <<".", "-", "1">>, <<".", "b">>,
     <<"[", "0", "]">>}

TailPairs ==
    {<< <<".", "0">>, <<".", "b">> >>, << <<".", "1">>, <<".", "b">> >>,
     << <<".", "2">>, <<".", "b">> >>, << <<".", "0">>, <<".", "0">> >>,
     << <<".", "0">>, <<".", "-", "1">> >>, << <<".", "-", "1">>, <<".", "b">> >>,
     << <<"[", "0", "]">>, <<".", "b">> >>, << <<"[", "0", "]">>, <<"[", "0", "]">> >>,
     << <<".", "b">>, <<".", "0">> >>, << <<".", "0">>, <<"[", "0", "]">> >>,
     << <<".", "0">>, <<".", "0", "0">> >>}

FlatKeyPool ==
    {<<"a">>}
    \cup {<<"a">> \o t : t \in KeyTails}
    \cup {<<"a">> \o tp[1] \o tp[2] : tp \in TailPairs}

\* the subsets of keys with at most n elements
RECURSIVE KeySets(_, _)
KeySets(keys, n) ==
    IF n = 0 THEN {{}}
    ELSE LET smaller == KeySets(keys, n - 1)
         IN  smaller \cup {s \cup {x} : s \in smaller, x \in keys}

\* the flat maps {"user[0].name": "A"} and {"user.0.name": "A"}
UserBracketFlat == M(<<"user", "[", "0", "]", ".", "name">> :> S("A"))
UserDotFlat == M(<<"user", ".", "0", ".", "name">> :> S("A"))

FlatInputs ==
    {M(f) : f \in UNION { [ks -> {S("x"), S("y")}]
                          : ks \in KeySets(FlatKeyPool, MaxFlatKeys) }}
    \cup {UserBracketFlat, UserDotFlat}

-----------------------------------------------------------------------------
(* The transform harness: a caller flattens a document and unflattens the   *)
(* flat map, or unflattens a flat map it was handed.                        *)

\* no i18n helper is called
I18nIdle ==
    /\ ipc = "idle" /\ jsonObj = None /\ separator = Separator /\ keyPath = None
    /\ before = None /\ removed = None
    /\ sourceKeys = <<>> /\ jsonKeys = <<>>
    /\ missingInJSON = None /\ unusedInSource = None

\* no request is handled
ApiIdle == srvOptions = None /\ request = None /\ response = None

\* no batch call is under way
BatchIdle ==
    /\ inputDir = "ok" /\ jsonFiles = <<>> /\ unflatten = FALSE /\ workers = 0
    /\ mpc = "idle" /\ sent = 0
    /\ filesChan = <<>> /\ filesClosed = FALSE
    /\ resultsChan = <<>> /\ resultsClosed = FALSE
    /\ wg = 0 /\ wpc = <<>> /\ wfile = <<>> /\ werr = <<>> /\ cpc = "idle"
    /\ successCount = 0 /\ errorCount = 0 /\ outputs = <<>>
    /\ ret = None /\ crashed = FALSE

FitInit ==
    /\ BatchIdle /\ I18nIdle /\ ApiIdle
    /\ out = None
    /\ \/ /\ pc = "nested"
          /\ doc \in Docs
          /\ flat = None
          /\ \E o \in OptionPairs : fopts = o[1] /\ uopts = o[2]
       \/ /\ pc = "flat"
          /\ doc = None
          /\ flat \in FlatInputs
          /\ fopts = DefaultFlattenOptions
          /\ uopts \in UnflattenOptionSet

\* flat := FlattenMapWithOptions(doc, "", fopts)
Flatten ==
    /\ pc = "nested"
    /\ flat' \in FlattenMapWithOptions(doc, <<>>, fopts)
    /\ pc' = "flat"
    /\ UNCHANGED <<doc, fopts, uopts, out>>
    /\ UNCHANGED <<batchVars, i18nVars, apiVars>>

\* out := UnflattenMapWithOptions(flat, uopts)
Unflatten ==
    /\ pc = "flat"
    /\ out' \in UnflattenMapWithOptions(flat, uopts)
    /\ pc' = "done"
    /\ UNCHANGED <<doc, fopts, uopts, flat>>
    /\ UNCHANGED <<batchVars, i18nVars, apiVars>>

FitNext == Flatten \/ Unflatten

Spec == FitInit /\ [][FitNext]_vars

-----------------------------------------------------------------------------
(* package processor: ProcessFileWithOptions and ProcessDirectoryWithOptions *)

MaxFiles == 2      \* .json files in the input directory
MaxWorkers == 2    \* largest options.Workers tried

NilErr == [k |-> "nil", v |-> <<>>]
ReadErr(name) == [k |-> "readErr", v |-> <<"failed to read input file", name>>]
\* the write error without the path
WriteErr_NoPath(name) == [k |-> "writeErr", v |-> <<"failed to write output file">>]

WriteErr(name) == [k |-> "writeErr", v |-> <<"failed to write output file", name>>]

\* filepath.Join(inputDir, file) and filepath.Join(outputDir, file)
inputPath(file) == <<"inputDir", file>>
outputPath(file) == <<"outputDir", file>>
DirErr(why) == [k |-> "dirErr", v |-> why]
BatchErr(n) == [k |-> "batchErr", v |-> <<n, "files failed to process">>]

\* what a .json file of the input directory can be: unreadable, readable with
\* an unwritable output path, or readable and writable with some content
PlainData == M(<<"a", ".", "b">> :> S("x"))
NegativeIndexData == M(<<"a", ".", "-", "1">> :> S("x"))

FileKinds ==
    {[readable |-> FALSE, writable |-> TRUE, data |-> EmptyMap],
     [readable |-> TRUE, writable |-> FALSE, data |-> PlainData],
     [readable |-> TRUE, writable |-> TRUE, data |-> PlainData],
     [readable |-> TRUE, writable |-> TRUE, data |-> NegativeIndexData]}

\* the outcomes of ProcessFileWithOptions on the file named name: the error it
\* returns (Panic when the transform panics) and the document it wrote
ProcessFileWithOptions(name, file, unfl) ==
    IF ~file.readable THEN {[err |-> ReadErr(inputPath(name)), wrote |-> None]}
    ELSE LET processedData ==
                IF unfl THEN UnflattenMapWithOptions(file.data, DefaultUnflattenOptions)
                ELSE FlattenMapWithOptions(file.data, <<>>, DefaultFlattenOptions)
         IN  { IF d = Panic THEN [err |-> Panic, wrote |-> None]
               ELSE IF ~file.writable THEN [err |-> WriteErr(outputPath(name)), wrote |-> None]
               ELSE [err |-> NilErr, wrote |-> d]
               : d \in processedData }

\* one goroutine for every file
numWorkers_PerFile == Len(jsonFiles)

\* numWorkers := options.Workers, 1 when that is not positive
numWorkers == IF workers <= 0 THEN 1 ELSE workers

FitIdle ==
    /\ pc = "idle" /\ doc = None /\ flat = None /\ out = None
    /\ fopts = DefaultFlattenOptions /\ uopts = DefaultUnflattenOptions

RECURSIVE FileLists(_)
FileLists(n) ==
    IF n = 0 THEN {<<>>}
    ELSE LET shorter == FileLists(n - 1)
         IN  shorter \cup {Append(q, f) : q \in {x \in shorter : Len(x) = n - 1},
                                          f \in FileKinds}

BatchInit ==
    /\ FitIdle /\ I18nIdle /\ ApiIdle
    /\ inputDir \in {"ok", "input directory error", "is not a directory",
                     "failed to create output directory", "failed to read directory"}
    /\ jsonFiles \in FileLists(MaxFiles)
    /\ unflatten \in BOOLEAN
    /\ workers \in 0..MaxWorkers
    /\ mpc = "start" /\ sent = 0
    /\ filesChan = <<>> /\ filesClosed = FALSE
    /\ resultsChan = <<>> /\ resultsClosed = FALSE
    /\ wg = 0
    /\ wpc = [w \in 1..numWorkers |-> "unborn"]
    /\ wfile = [w \in 1..numWorkers |-> 0]
    /\ werr = [w \in 1..numWorkers |-> NilErr]
    /\ cpc = "unborn"
    /\ successCount = 0 /\ errorCount = 0
    /\ outputs = [i \in 1..Len(jsonFiles) |-> None]
    /\ ret = None /\ crashed = FALSE

\* lines 105-142: the directory checks, the listing and the early returns
Start ==
    /\ mpc = "start" /\ ~crashed
    /\ IF inputDir # "ok"
       THEN mpc' = "returned" /\ ret' = DirErr(inputDir)
       ELSE IF Len(jsonFiles) = 0
       THEN mpc' = "returned" /\ ret' = NilErr
       ELSE mpc' = "spawn" /\ ret' = ret
    /\ UNCHANGED <<inputDir, jsonFiles, unflatten, workers, sent, filesChan,
                   filesClosed, resultsChan, resultsClosed, wg, wpc, wfile, werr,
                   cpc, successCount, errorCount, outputs, crashed>>
    /\ UNCHANGED <<fitVars, i18nVars, apiVars>>

\* one round of the loop that starts the workers: wg.Add(1); go func() {...}()
StartWorker ==
    /\ mpc = "spawn" /\ ~crashed
    /\ sent < numWorkers
    /\ wg' = wg + 1
    /\ wpc' = [wpc EXCEPT ![sent + 1] = "recv"]
    /\ IF sent + 1 = numWorkers
       THEN mpc' = "feed" /\ sent' = 0
       ELSE mpc' = mpc /\ sent' = sent + 1
    /\ UNCHANGED <<inputDir, jsonFiles, unflatten, workers, filesChan,
                   filesClosed, resultsChan, resultsClosed, wfile, werr,
                   cpc, successCount, errorCount, outputs, ret, crashed>>
    /\ UNCHANGED <<fitVars, i18nVars, apiVars>>

\* one round of the send loop: filesChan <- file (capacity len(jsonFiles))
SendFile ==
    /\ mpc = "feed" /\ ~crashed
    /\ Len(filesChan) < Len(jsonFiles)
    /\ filesChan' = Append(filesChan, sent + 1)
    /\ IF sent + 1 = Len(jsonFiles)
       THEN mpc' = "close" /\ sent' = sent + 1
       ELSE mpc' = mpc /\ sent' = sent + 1
    /\ UNCHANGED <<inputDir, jsonFiles, unflatten, workers, filesClosed,
                   resultsChan, resultsClosed, wg, wpc, wfile, werr,
                   cpc, successCount, errorCount, outputs, ret, crashed>>
    /\ UNCHANGED <<fitVars, i18nVars, apiVars>>

\* the main goroutine going on without close(filesChan)
CloseFiles_Forgotten ==
    /\ mpc = "close" /\ ~crashed
    /\ mpc' = "go"
    /\ UNCHANGED <<inputDir, jsonFiles, unflatten, workers, sent, filesChan,
                   filesClosed, resultsChan, resultsClosed, wg, wpc, wfile, werr,
                   cpc, successCount, errorCount, outputs, ret, crashed>>
    /\ UNCHANGED <<fitVars, i18nVars, apiVars>>

\* close(filesChan)
CloseFiles ==
    /\ mpc = "close" /\ ~crashed
    /\ filesClosed' = TRUE
    /\ mpc' = "go"
    /\ UNCHANGED <<inputDir, jsonFiles, unflatten, workers, sent, filesChan,
                   resultsChan, resultsClosed, wg, wpc, wfile, werr,
                   cpc, successCount, errorCount, outputs, ret, crashed>>
    /\ UNCHANGED <<fitVars, i18nVars, apiVars>>

\* go func() { wg.Wait(); close(resultsChan) }()
StartCloser ==
    /\ mpc = "go" /\ ~crashed
    /\ cpc' = "wait"
    /\ mpc' = "collect"
    /\ UNCHANGED <<inputDir, jsonFiles, unflatten, workers, sent, filesChan,
                   filesClosed, resultsChan, resultsClosed, wg, wpc, wfile, werr,
                   successCount, errorCount, outputs, ret, crashed>>
    /\ UNCHANGED <<fitVars, i18nVars, apiVars>>

\* close(resultsChan) without wg.Wait()
CloseResults_NoWait ==
    /\ cpc = "wait" /\ ~crashed
    /\ resultsClosed' = TRUE
    /\ cpc' = "done"
    /\ UNCHANGED <<inputDir, jsonFiles, unflatten, workers, mpc, sent, filesChan,
                   filesClosed, resultsChan, wg, wpc, wfile, werr,
                   successCount, errorCount, outputs, ret, crashed>>
    /\ UNCHANGED <<fitVars, i18nVars, apiVars>>

\* wg.Wait() returns; close(resultsChan)
CloseResults ==
    /\ cpc = "wait" /\ ~crashed
    /\ wg = 0
    /\ resultsClosed' = TRUE
    /\ cpc' = "done"
    /\ UNCHANGED <<inputDir, jsonFiles, unflatten, workers, mpc, sent, filesChan,
                   filesClosed, resultsChan, wg, wpc, wfile, werr,
                   successCount, errorCount, outputs, ret, crashed>>
    /\ UNCHANGED <<fitVars, i18nVars, apiVars>>

\* a worker reading the next file and leaving it in the channel
WorkerReceive_Peeks(w) ==
    /\ wpc[w] = "recv" /\ ~crashed
    /\ filesChan # <<>>
    /\ wfile' = [wfile EXCEPT ![w] = Head(filesChan)]
    /\ wpc' = [wpc EXCEPT ![w] = "process"]
    /\ UNCHANGED <<inputDir, jsonFiles, unflatten, workers, mpc, sent, filesChan,
                   filesClosed, resultsChan, resultsClosed, wg, werr,
                   cpc, successCount, errorCount, outputs, ret, crashed>>
    /\ UNCHANGED <<fitVars, i18nVars, apiVars>>

\* a worker takes the next file of "for file := range filesChan"
WorkerReceive(w) ==
    /\ wpc[w] = "recv" /\ ~crashed
    /\ filesChan # <<>>
    /\ wfile' = [wfile EXCEPT ![w] = Head(filesChan)]
    /\ filesChan' = Tail(filesChan)
    /\ wpc' = [wpc EXCEPT ![w] = "process"]
    /\ UNCHANGED <<inputDir, jsonFiles, unflatten, workers, mpc, sent,
                   filesClosed, resultsChan, resultsClosed, wg, werr,
                   cpc, successCount, errorCount, outputs, ret, crashed>>
    /\ UNCHANGED <<fitVars, i18nVars, apiVars>>

\* the range ends on the closed, drained channel; the deferred wg.Done() runs
WorkerExit(w) ==
    /\ wpc[w] = "recv" /\ ~crashed
    /\ filesChan = <<>> /\ filesClosed
    /\ wpc' = [wpc EXCEPT ![w] = "exited"]
    /\ wg' = wg - 1
    /\ UNCHANGED <<inputDir, jsonFiles, unflatten, workers, mpc, sent, filesChan,
                   filesClosed, resultsChan, resultsClosed, wfile, werr,
                   cpc, successCount, errorCount, outputs, ret, crashed>>
    /\ UNCHANGED <<fitVars, i18nVars, apiVars>>

\* err := ProcessFileWithOptions(inputPath, outputPath, unflatten, options);
\* a panic of the transform is not recovered and ends the process
WorkerProcess(w) ==
    /\ wpc[w] = "process" /\ ~crashed
    /\ \E r \in ProcessFileWithOptions(wfile[w], jsonFiles[wfile[w]], unflatten) :
          IF r.err = Panic
          THEN /\ crashed' = TRUE
               /\ UNCHANGED <<wpc, werr, outputs>>
          ELSE /\ crashed' = crashed
               /\ werr' = [werr EXCEPT ![w] = r.err]
               /\ outputs' = IF r.err = NilErr
                             THEN [outputs EXCEPT ![wfile[w]] = r.wrote]
                             ELSE outputs
               /\ wpc' = [wpc EXCEPT ![w] = "send"]
    /\ UNCHANGED <<inputDir, jsonFiles, unflatten, workers, mpc, sent, filesChan,
                   filesClosed, resultsChan, resultsClosed, wg, wfile,
                   cpc, successCount, errorCount, ret>>
    /\ UNCHANGED <<fitVars, i18nVars, apiVars>>

\* resultsChan <- {file, err}; a send on a closed channel panics
WorkerSend(w) ==
    /\ wpc[w] = "send" /\ ~crashed
    /\ Len(resultsChan) < Len(jsonFiles)
    /\ IF resultsClosed
       THEN crashed' = TRUE /\ UNCHANGED <<resultsChan, wpc>>
       ELSE /\ resultsChan' = Append(resultsChan, [filename |-> wfile[w], err |-> werr[w]])
            /\ wpc' = [wpc EXCEPT ![w] = "recv"]
            /\ crashed' = crashed
    /\ UNCHANGED <<inputDir, jsonFiles, unflatten, workers, mpc, sent, filesChan,
                   filesClosed, resultsClosed, wg, wfile, werr,
                   cpc, successCount, errorCount, outputs, ret>>
    /\ UNCHANGED <<fitVars, i18nVars, apiVars>>

\* one round of "for result := range resultsChan"
Collect ==
    /\ mpc = "collect" /\ ~crashed
    /\ resultsChan # <<>>
    /\ resultsChan' = Tail(resultsChan)
    /\ IF Head(resultsChan).err # NilErr
       THEN errorCount' = errorCount + 1 /\ successCount' = successCount
       ELSE successCount' = successCount + 1 /\ errorCount' = errorCount
    /\ UNCHANGED <<inputDir, jsonFiles, unflatten, workers, mpc, sent, filesChan,
                   filesClosed, resultsClosed, wg, wpc, wfile, werr,
                   cpc, outputs, ret, crashed>>
    /\ UNCHANGED <<fitVars, i18nVars, apiVars>>

\* the range ends on the closed, drained channel; lines 201-208
Finish ==
    /\ mpc = "collect" /\ ~crashed
    /\ resultsChan = <<>> /\ resultsClosed
    /\ ret' = IF errorCount > 0 THEN BatchErr(errorCount) ELSE NilErr
    /\ mpc' = "returned"
    /\ UNCHANGED <<inputDir, jsonFiles, unflatten, workers, sent, filesChan,
                   filesClosed, resultsChan, resultsClosed, wg, wpc, wfile, werr,
                   cpc, successCount, errorCount, outputs, crashed>>
    /\ UNCHANGED <<fitVars, i18nVars, apiVars>>

BatchNext ==
    \/ Start \/ StartWorker \/ SendFile \/ CloseFiles \/ StartCloser
    \/ CloseResults \/ Collect \/ Finish
    \/ \E w \in DOMAIN wpc : WorkerReceive(w)
    \/ \E w \in DOMAIN wpc : WorkerExit(w)
    \/ \E w \in DOMAIN wpc : WorkerProcess(w)
    \/ \E w \in DOMAIN wpc : WorkerSend(w)

BatchSpec == BatchInit /\ [][BatchNext]_vars

\* a call that unflattens the files of a directory it can list
BatchFairInit == BatchInit /\ inputDir = "ok" /\ unflatten

\* the Go scheduler runs some goroutine as long as one of them can run
BatchFairSpec == BatchFairInit /\ [][BatchNext]_vars /\ WF_vars(BatchNext)

-----------------------------------------------------------------------------
(* Package i18n: RemoveKeysFromPath and CompareKeys.                        *)

\* delete(m, key)
MapDel(m, key) == M([x \in DOMAIN m.v \ {key} |-> m.v[x]])

\* the loop of splitKeyPath for a custom separator: empty parts are dropped
RECURSIVE splitCustom(_, _, _)
splitCustom(kp, sep, current) ==
    IF kp = <<>> THEN (IF current # <<>> THEN <<current>> ELSE <<>>)
    ELSE IF Head(kp) = sep
    THEN (IF current # <<>> THEN <<current>> ELSE <<>>)
         \o splitCustom(Tail(kp), sep, <<>>)
    ELSE splitCustom(Tail(kp), sep, current \o <<Head(kp)>>)

splitKeyPath(kp, sep) ==
    IF kp = <<>> THEN <<>>
    ELSE IF sep = "." THEN Split(kp)
    ELSE splitCustom(kp, sep, <<>>)

\* the loop over parts[:len(parts)-1]: the maps met on the way down, or failure
RECURSIVE descend(_, _, _)
descend(current, parts, parents) ==
    IF parts = <<>> THEN [ok |-> TRUE, parents |-> parents]
    ELSE IF Has(current, Head(parts)) /\ IsMap(current.v[Head(parts)])
    THEN descend(current.v[Head(parts)], Tail(parts),
                 Append(parents, current.v[Head(parts)]))
    ELSE [ok |-> FALSE, parents |-> parents]

\* cleanupParents that never deletes an emptied parent
RECURSIVE cleanupParents_KeepsEmpty(_, _, _, _, _)
cleanupParents_KeepsEmpty(parents, parentKeys, i, current, cleaning) ==
    IF i = 1 THEN current
    ELSE cleanupParents_KeepsEmpty(parents, parentKeys, i - 1,
            MapPut(parents[i - 1], parentKeys[i - 1], current), FALSE)

\* the loop "for i := len(parents) - 1; i > 0; i--" seen from the root: current
\* is parents[i] after the deletions so far (the maps are shared by reference,
\* so every parent sees the change below it); cleaning is FALSE after the break
RECURSIVE cleanupParents(_, _, _, _, _)
cleanupParents(parents, parentKeys, i, current, cleaning) ==
    IF i = 1 THEN current
    ELSE IF cleaning /\ DOMAIN current.v = {}
    THEN cleanupParents(parents, parentKeys, i - 1,
            MapDel(parents[i - 1], parentKeys[i - 1]), TRUE)
    ELSE cleanupParents(parents, parentKeys, i - 1,
            MapPut(parents[i - 1], parentKeys[i - 1], current), FALSE)

\* RemoveKeysFromPath treating every path as a top-level key
RemoveKeysFromPath_TopLevelOnly(val, kp, sep) ==
    LET parts == splitKeyPath(kp, sep)
    IN  IF Len(parts) = 0 THEN [ok |-> FALSE, value |-> val]
        ELSE IF Has(val, parts[1])
        THEN [ok |-> TRUE, value |-> MapDel(val, parts[1])]
        ELSE [ok |-> FALSE, value |-> val]

\* RemoveKeysFromPath: what it returns and the document it leaves
RemoveKeysFromPath(val, kp, sep) ==
    LET parts == splitKeyPath(kp, sep)
        fail == [ok |-> FALSE, value |-> val]
    IN  IF Len(parts) = 0 THEN fail
        ELSE IF Len(parts) = 1
        THEN IF Has(val, parts[1])
             THEN [ok |-> TRUE, value |-> MapDel(val, parts[1])]
             ELSE fail
        ELSE LET parentKeys == SubSeq(parts, 1, Len(parts) - 1)
                 d == descend(val, parentKeys, <<val>>)
                 targetKey == parts[Len(parts)]
             IN  IF ~d.ok THEN fail
                 ELSE LET current == d.parents[Len(d.parents)]
                      IN  IF Has(current, targetKey)
                          THEN [ok |-> TRUE,
                                value |-> cleanupParents(d.parents, parentKeys,
                                            Len(d.parents), MapDel(current, targetKey), TRUE)]
                          ELSE fail

\* the separators a caller passes
Separators == {".", "/"}

\* key paths handed to RemoveKeysFromPath: up to three keys joined by sep, the
\* empty path, and paths with an empty segment
KeyPaths(sep) ==
    {<<>>, <<"a">>, <<"b">>, <<"0">>,
     <<"a", sep, "a">>, <<"a", sep, "b">>, <<"a", sep, "0">>, <<"b", sep, "a">>,
     <<"a", sep, "a", sep, "a">>, <<"a", sep, "b", sep, "a">>,
     <<"a", sep, sep, "a">>, <<"a", sep>>}

\* the documents of the cleanup: keys a and b at the top
I18nDocs ==
    {d \in {M(f) : f \in MapsOf(MaxNodes - 1, MaxNodes, 1)} :
        DOMAIN d.v \subseteq {<<"a">>, <<"b">>}}

\* byte order of the one-character tokens
TokenRank(c) ==
    IF c = "." THEN 46
    ELSE IF c \in Digits THEN 48 + DigitValue(c)
    ELSE IF c = "a" THEN 97 ELSE 98

\* s < t for Go strings
RECURSIVE Less(_, _)
Less(s, t) ==
    IF s = <<>> THEN t # <<>>
    ELSE IF t = <<>> THEN FALSE
    ELSE IF Head(s) = Head(t) THEN Less(Tail(s), Tail(t))
    ELSE TokenRank(Head(s)) < TokenRank(Head(t))

\* sort.Strings of a slice holding the strings of the set strs, each once
RECURSIVE sortStrings(_)
sortStrings(strs) ==
    IF strs = {} THEN <<>>
    ELSE LET least == CHOOSE x \in strs : \A y \in strs \ {x} : Less(x, y)
         IN  <<least>> \o sortStrings(strs \ {least})

\* m[key] for a map[string]bool: false for a key that is absent
lookup(m, key) == key \in DOMAIN m /\ m[key]

\* CompareKeys with the second loop testing jsonKeys again
CompareKeys_SameMapTwice(src, json) ==
    [missingInJSON |-> sortStrings({key \in DOMAIN src : ~lookup(json, key)}),
     unusedInSource |-> sortStrings({key \in DOMAIN json : ~lookup(json, key)})]

\* CompareKeys: each range appends every key once, in any order; the sort
\* makes the order of the range irrelevant
CompareKeys(src, json) ==
    [missingInJSON |-> sortStrings({key \in DOMAIN src : ~lookup(json, key)}),
     unusedInSource |-> sortStrings({key \in DOMAIN json : ~lookup(src, key)})]

\* the translation keys of the comparison
CompareKeyPool == {<<"a">>, <<"b">>, <<"a", ".", "b">>, <<"b", ".", "a">>}

\* the key sets the extractors build: every entry is set by keys[key] = true
KeyMaps == UNION {[ks -> {TRUE}] : ks \in SUBSET CompareKeyPool}

I18nInit ==
    /\ FitIdle /\ BatchIdle /\ ApiIdle
    /\ keyPath = None /\ before = None /\ removed = None
    /\ missingInJSON = None /\ unusedInSource = None
    /\ \/ /\ ipc = "remove"
          /\ jsonObj \in I18nDocs
          /\ separator \in Separators
          /\ sourceKeys = <<>> /\ jsonKeys = <<>>
       \/ /\ ipc = "compare"
          /\ jsonObj = None
          /\ separator = Separator
          /\ sourceKeys \in KeyMaps /\ jsonKeys \in KeyMaps

\* one round of the loop of cleanupJSONFile: RemoveKeysFromPath(jsonObj, key, separator)
RemoveKeys ==
    /\ ipc \in {"remove", "again"}
    /\ \E kp \in KeyPaths(separator) :
          LET r == RemoveKeysFromPath(jsonObj, kp, separator)
          IN  /\ keyPath' = kp
              /\ before' = jsonObj
              /\ jsonObj' = r.value
              /\ removed' = r.ok
    /\ ipc' = IF ipc = "remove" THEN "again" ELSE "done"
    /\ UNCHANGED <<separator, sourceKeys, jsonKeys, missingInJSON, unusedInSource>>
    /\ UNCHANGED <<fitVars, batchVars, apiVars>>

\* missingInJSON, unusedInSource := CompareKeys(sourceKeys, jsonKeys)
Compare ==
    /\ ipc = "compare"
    /\ LET r == CompareKeys(sourceKeys, jsonKeys)
       IN  /\ missingInJSON' = r.missingInJSON
           /\ unusedInSource' = r.unusedInSource
    /\ ipc' = "done"
    /\ UNCHANGED <<jsonObj, separator, keyPath, before, removed, sourceKeys, jsonKeys>>
    /\ UNCHANGED <<fitVars, batchVars, apiVars>>

I18nNext == RemoveKeys \/ Compare

I18nSpec == I18nInit /\ [][I18nNext]_vars

-----------------------------------------------------------------------------
(* package api: the /process handler of a started server *)

MaxApiNodes == 2   \* values below the key a in the data of a request

\* options handed to StartServerWithOptions by main for -array-format=af
ServerOptions(af) ==
    [FlattenOpts |-> [DefaultFlattenOptions EXCEPT !.ArrayFormatting = af],
     UnflattenOpts |-> [DefaultUnflattenOptions
                          EXCEPT !.SupportBracketNotation = (af = "bracket")]]

\* StartServerWithOptions: a zero MaxDepth becomes -1 and the array indices
\* are switched on before the server is built
StartServerWithOptions(options) ==
    [options EXCEPT
       !.FlattenOpts.MaxDepth = IF @ = 0 THEN -1 ELSE @,
       !.FlattenOpts.IncludeArrayIndices = TRUE]

\* the arrayFormat field of a request: absent, the two formats, another word
ArrayFormats == {"", "index", "bracket", "dots"}

\* nested data of a request
ApiDocs ==
    {M(<<"a">> :> v) : v \in Vals(MaxApiNodes - 1, MaxApiNodes)} \cup {ReadmeDoc}

\* flat data of a request with reverse = true
ApiFlats ==
    {M(<<"a">> \o t :> S("x")) : t \in KeyTails} \cup {UserBracketFlat, UserDotFlat}

\* a request that arrives at /process; Decodes is whether its body is JSON,
\* Data = Nil is a body without data
Requests ==
    [Method : {"POST", "GET"}, Decodes : BOOLEAN, Data : {Nil} \cup ApiDocs,
     Reverse : {FALSE}, ArrayFormat : ArrayFormats]
    \cup [Method : {"POST"}, Decodes : {TRUE}, Data : ApiFlats,
          Reverse : {TRUE}, ArrayFormat : ArrayFormats]

\* sendError(w, message, statusCode)
sendError(message, statusCode) ==
    [Status |-> statusCode, Success |-> FALSE, Data |-> None,
     Message |-> "", Error |-> message]

InvalidFormatWarning ==
    "Warning: Invalid array format specified, using default ('index')."

\* the options the handler processes a request with
requestOptions(options, req) ==
    IF req.ArrayFormat \in {"index", "bracket"}
    THEN [FlattenOpts |-> [options.FlattenOpts
                             EXCEPT !.ArrayFormatting = req.ArrayFormat],
          UnflattenOpts |-> [options.UnflattenOpts
                               EXCEPT !.SupportBracketNotation =
                                          (req.ArrayFormat = "bracket")]]
    ELSE options

\* the message of the response
requestMessage(req) ==
    IF req.ArrayFormat # "" /\ req.ArrayFormat \notin {"index", "bracket"}
    THEN InvalidFormatWarning
    ELSE ""

\* the answers ProcessHandler can give to req; a panic of the transform ends
\* the connection with no answer (status 0)
Responses(options, req) ==
    IF req.Method # "POST"
    THEN {sendError("Only POST method is supported", 405)}
    ELSE IF ~req.Decodes
    THEN {sendError("Failed to parse request body", 400)}
    ELSE IF req.Data = Nil
    THEN {sendError("No data provided in request", 400)}
    ELSE LET opts == requestOptions(options, req)
             results ==
                 IF req.Reverse
                 THEN UnflattenMapWithOptions(req.Data, opts.UnflattenOpts)
                 ELSE FlattenMapWithOptions(req.Data, <<>>, opts.FlattenOpts)
         IN  { IF result = Panic
               THEN [Status |-> 0, Success |-> FALSE, Data |-> None,
                     Message |-> "", Error |-> "panic"]
               ELSE [Status |-> 200, Success |-> TRUE, Data |-> result,
                     Message |-> requestMessage(req), Error |-> ""]
               : result \in results }

ApiInit ==
    /\ FitIdle /\ BatchIdle /\ I18nIdle
    /\ \E af \in {"index", "bracket"} :
          srvOptions = StartServerWithOptions(ServerOptions(af))
    /\ request \in Requests
    /\ response = None

\* the server answers the request
ProcessHandler ==
    /\ request # None /\ response = None
    /\ response' \in Responses(srvOptions, request)
    /\ UNCHANGED <<srvOptions, request>>
    /\ UNCHANGED <<fitVars, batchVars, i18nVars>>

ApiNext == ProcessHandler

ApiSpec == ApiInit /\ [][ApiNext]_vars

-----------------------------------------------------------------------------
(* Vocabulary of the properties.                                            *)

\* v is built from maps and scalars only
RECURSIVE NoSequences(_)
NoSequences(v) ==
    IF IsArr(v) THEN FALSE
    ELSE IF IsMap(v) THEN \A key \in DOMAIN v.v : NoSequences(v.v[key])
    ELSE TRUE

\* key holds a bracketed index "[N]"
HasBracketIndex(key) ==
    \E i, j \in 1..Len(key) :
        /\ i + 1 < j
        /\ key[i] = "[" /\ key[j] = "]"
        /\ \A n \in (i + 1)..(j - 1) : key[n] \in Digits

\* key reads as a decimal integer: an optional sign and one or more digits
IntegerText(key) ==
    LET body == IF key # <<>> /\ Head(key) \in {"+", "-"} THEN Tail(key) ELSE key
    IN  body # <<>> /\ \A i \in 1..Len(body) : body[i] \in Digits

\* key is not empty and holds neither the separator nor a bracketed index
PlainKey(key) ==
    /\ key # <<>>
    /\ \A i \in 1..Len(key) : key[i] # Separator
    /\ ~HasBracketIndex(key)

\* every map key of v is plain, and no key below the top level reads as an integer
RECURSIVE KeysPlain(_, _)
KeysPlain(v, top) ==
    IF IsMap(v)
    THEN \A key \in DOMAIN v.v :
            /\ PlainKey(key)
            /\ top \/ ~IntegerText(key)
            /\ KeysPlain(v.v[key], FALSE)
    ELSE IF IsArr(v) THEN \A i \in 1..Len(v.v) : KeysPlain(v.v[i], FALSE)
    ELSE TRUE

DefaultRun == fopts = DefaultFlattenOptions /\ uopts = DefaultUnflattenOptions

\* a step of a path into a document: a map key, or the index i of an element
KeyStep(key) == [t |-> "key", s |-> key, i |-> 0]
IndexStep(i) == [t |-> "idx", s |-> Itoa(i), i |-> i]

\* the paths from v to the empty maps and empty sequences in it
RECURSIVE EmptyPaths(_)
EmptyPaths(v) ==
    IF v \in {EmptyMap, EmptyArr} THEN {<<>>}
    ELSE IF IsMap(v)
    THEN UNION { {<<KeyStep(key)>> \o p : p \in EmptyPaths(v.v[key])}
                 : key \in DOMAIN v.v }
    ELSE IF IsArr(v)
    THEN UNION { {<<IndexStep(i - 1)>> \o p : p \in EmptyPaths(v.v[i])}
                 : i \in 1..Len(v.v) }
    ELSE {}

\* the flat key that names path p under array formatting fmt
RECURSIVE PathKey(_, _)
PathKey(p, fmt) ==
    IF p = <<>> THEN <<>>
    ELSE LET front == PathKey(SubSeq(p, 1, Len(p) - 1), fmt)
             last == p[Len(p)]
         IN  IF last.t = "idx" /\ fmt = "bracket"
             THEN front \o <<"[">> \o last.s \o <<"]">>
             ELSE IF Len(p) = 1 THEN last.s
             ELSE front \o <<Separator>> \o last.s

\* the value of v at path p, None when the path leaves v
RECURSIVE At(_, _)
At(v, p) ==
    IF p = <<>> THEN v
    ELSE LET st == Head(p)
         IN  IF st.t = "key"
             THEN IF IsMap(v) /\ st.s \in DOMAIN v.v
                  THEN At(v.v[st.s], Tail(p)) ELSE None
             ELSE IF IsArr(v) /\ st.i + 1 <= Len(v.v)
                  THEN At(v.v[st.i + 1], Tail(p)) ELSE None

-----------------------------------------------------------------------------
(* Properties of the transform.                                             *)

\* C1 as stated: under default options, unflattening the flattened form of any
\* document built only from maps and scalars gives back the document.
C1_RoundTripMapsAndScalars ==
    (pc = "done" /\ IsMap(doc) /\ NoSequences(doc) /\ DefaultRun) => out = doc

\* C1: under default options, unflattening the flattened form of a document
\* built only from maps and scalars gives back the document, when every map key
\* is non-empty and holds neither the separator nor a bracketed index, and no
\* key below the top level reads as an integer.
C1_RoundTripPlainKeys ==
    (pc = "done" /\ IsMap(doc) /\ NoSequences(doc) /\ KeysPlain(doc, TRUE)
        /\ DefaultRun)
    => out = doc

\* a round trip of a plain-keyed document with a non-empty map inside a map
C1_Witness ==
    /\ pc = "done" /\ IsMap(doc) /\ NoSequences(doc) /\ KeysPlain(doc, TRUE)
    /\ DefaultRun
    /\ \E key \in DOMAIN doc.v :
          /\ IsMap(doc.v[key]) /\ doc.v[key] # EmptyMap
          /\ \E inner \in DOMAIN doc.v[key].v : doc.v[key].v[inner] = EmptyMap
    /\ out = doc

\* C2: a plain-keyed document (its sequences are dense, as every sequence is)
\* flattened with index or with bracket formatting and unflattened with
\* DetectArrays and SupportBracketNotation gives back the document.
C2_RoundTripDenseArrays ==
    (pc = "done" /\ IsMap(doc) /\ KeysPlain(doc, TRUE)
        /\ fopts \in {DefaultFlattenOptions,
                      [DefaultFlattenOptions EXCEPT !.ArrayFormatting = "bracket"]}
        /\ uopts = DefaultUnflattenOptions)
    => out = doc

FlatA01 == M((<<"a", ".", "0">> :> S("x")) @@ (<<"a", ".", "1">> :> S("y")))
FlatA02 == M((<<"a", ".", "0">> :> S("x")) @@ (<<"a", ".", "2">> :> S("y")))

\* C3: UnflattenMap of {"a.0": "x", "a.1": "y"} is {a: ["x", "y"]}, and
\* UnflattenMap of {"a.0": "x", "a.2": "y"} holds under a a map with exactly the
\* keys "0" and "2".
C3_ArrayPromotion ==
    (pc = "done" /\ uopts = DefaultUnflattenOptions)
    => /\ flat = FlatA01 => out = M(<<"a">> :> A(<<S("x"), S("y")>>))
       /\ flat = FlatA02 =>
            /\ IsMap(out) /\ Has(out, <<"a">>) /\ IsMap(out.v[<<"a">>])
            /\ DOMAIN out.v[<<"a">>].v = {<<"0">>, <<"2">>}

\* C4: for every path of a plain-keyed document that ends at an empty map or an
\* empty sequence, the flat map holds that empty container under the key of the
\* path, and the unflattened document holds the same empty container at the path.
C4_EmptyContainers ==
    (pc \in {"flat", "done"} /\ IsMap(doc) /\ KeysPlain(doc, TRUE)
        /\ fopts \in {DefaultFlattenOptions,
                      [DefaultFlattenOptions EXCEPT !.ArrayFormatting = "bracket"]}
        /\ uopts = DefaultUnflattenOptions)
    => \A p \in EmptyPaths(doc) \ {<<>>} :
          /\ Has(flat, PathKey(p, fopts.ArrayFormatting))
          /\ flat.v[PathKey(p, fopts.ArrayFormatting)] = At(doc, p)
          /\ pc = "done" => At(out, p) = At(doc, p)

MaxDepthOne == [DefaultFlattenOptions EXCEPT !.MaxDepth = 1]

\* C5 as stated: with MaxDepth = 1 the flat form of {a: {b: {c: 1}}} holds the
\* key "a" with the value {b: {c: 1}} and neither "a.b" nor "a.b.c", and every
\* non-empty map under a top-level key of a plain-keyed document of maps and
\* scalars is stored whole under that key.
C5_MaxDepthOneKeepsTopLevel ==
    (pc \in {"flat", "done"} /\ IsMap(doc) /\ fopts = MaxDepthOne)
    => /\ doc = MaxDepthDoc =>
            /\ Has(flat, <<"a">>) /\ flat.v[<<"a">>] = doc.v[<<"a">>]
            /\ ~Has(flat, <<"a", ".", "b">>)
            /\ ~Has(flat, <<"a", ".", "b", ".", "c">>)
       /\ (NoSequences(doc) /\ KeysPlain(doc, TRUE)) =>
            \A key \in DOMAIN doc.v :
                (IsMap(doc.v[key]) /\ doc.v[key] # EmptyMap)
                => (Has(flat, key) /\ flat.v[key] = doc.v[key])

\* the top-level keys of d holding a non-empty map
MapKeys(d) == {key \in DOMAIN d.v : IsMap(d.v[key]) /\ d.v[key] # EmptyMap}

\* d with the non-empty maps under its top-level keys flattened by one level
OneLevelFlat(d) ==
    LET pairs == {<<key, inner>> \in MapKeys(d) \X UNION {DOMAIN d.v[k].v : k \in MapKeys(d)}
                    : inner \in DOMAIN d.v[key].v}
        kept == DOMAIN d.v \ MapKeys(d)
        joined == {pr[1] \o <<Separator>> \o pr[2] : pr \in pairs}
    IN  M([fk \in kept \cup joined |->
            IF fk \in kept THEN d.v[fk]
            ELSE LET pr == CHOOSE q \in pairs : q[1] \o <<Separator>> \o q[2] = fk
                 IN  d.v[pr[1]].v[pr[2]]])

\* C5: with MaxDepth = 1 the flat form of {a: {b: {c: 1}}} is exactly
\* {"a.b": {c: 1}}: the map under the top-level key is flattened and the map
\* one level further down is stored whole under its two-segment key.  For every
\* plain-keyed document of maps and scalars the flat form is the document with
\* the non-empty maps under its top-level keys flattened by exactly one level.
C5_MaxDepthOneKeepsSecondLevel ==
    (pc \in {"flat", "done"} /\ IsMap(doc) /\ fopts = MaxDepthOne)
    => /\ doc = MaxDepthDoc =>
            flat = M(<<"a", ".", "b">> :> M(<<"c">> :> S("1")))
       /\ (NoSequences(doc) /\ KeysPlain(doc, TRUE)) => flat = OneLevelFlat(doc)

\* {a: {b: {c: 1}}} flattened with MaxDepth = 1
C5_Witness ==
    /\ pc = "flat" /\ doc = MaxDepthDoc /\ fopts = MaxDepthOne
    /\ flat = M(<<"a", ".", "b">> :> M(<<"c">> :> S("1")))

FlatNegativeIndex == M(<<"a", ".", "-", "1">> :> S("x"))

\* C6: every call of UnflattenMapWithOptions returns a document, and under
\* default options {"a.-1": "x"} becomes {a: {"-1": "x"}}.
C6_NeverAborts ==
    pc = "done"
    => /\ out # Panic
       /\ (flat = FlatNegativeIndex /\ uopts = DefaultUnflattenOptions)
            => out = M(<<"a">> :> M(<<"-", "1">> :> S("x")))

\* position i of key opens a bracketed index
IndexOpens(key, i) ==
    /\ key[i] = "["
    /\ \E j \in (i + 2)..Len(key) :
          key[j] = "]" /\ \A n \in (i + 1)..(j - 1) : key[n] \in Digits

\* position j of key closes a bracketed index
IndexCloses(key, j) ==
    /\ key[j] = "]"
    /\ \E i \in 1..(j - 2) :
          key[i] = "[" /\ \A n \in (i + 1)..(j - 1) : key[n] \in Digits

\* key from position i on, with every "[N]" rewritten to separator + N
RECURSIVE DottedFrom(_, _)
DottedFrom(key, i) ==
    IF i > Len(key) THEN <<>>
    ELSE (IF IndexOpens(key, i) THEN <<Separator>>
          ELSE IF IndexCloses(key, i) THEN <<>>
          ELSE <<key[i]>>)
         \o DottedFrom(key, i + 1)

DottedKey(key) == DottedFrom(key, 1)

\* no two keys of m are rewritten to the same key
DottedKeysDistinct(m) ==
    \A k1, k2 \in DOMAIN m.v : DottedKey(k1) = DottedKey(k2) => k1 = k2

\* the flat map m with every key rewritten
DottedFlat(m) ==
    M([dk \in {DottedKey(key) : key \in DOMAIN m.v} |->
        m.v[CHOOSE key \in DOMAIN m.v : DottedKey(key) = dk]])

UserDoc == M(<<"user">> :> A(<< M(<<"name">> :> S("A")) >>))

\* C7: with SupportBracketNotation, a flat map with keys that use "[N]", all
\* rewritten to distinct keys, has the same outcomes of UnflattenMapWithOptions
\* as the rewritten flat map, and the outcome of a call is one of the rewritten
\* map's outcomes; under default options {"user[0].name": "A"} and
\* {"user.0.name": "A"} both give {user: [{name: "A"}]}.
C7_BracketDotEquivalence ==
    /\ (pc \in {"flat", "done"} /\ IsMap(flat) /\ uopts.SupportBracketNotation
          /\ DottedKeysDistinct(flat) /\ DottedFlat(flat) # flat)
       => /\ UnflattenMapWithOptions(flat, uopts)
               = UnflattenMapWithOptions(DottedFlat(flat), uopts)
          /\ pc = "done" => out \in UnflattenMapWithOptions(DottedFlat(flat), uopts)
    /\ (pc = "done" /\ uopts = DefaultUnflattenOptions
          /\ flat \in {UserBracketFlat, UserDotFlat})
       => out = UserDoc

\* {"user[0].name": "A"} unflattened to {user: [{name: "A"}]}
C7_Witness ==
    /\ pc = "done" /\ flat = UserBracketFlat
    /\ uopts = DefaultUnflattenOptions
    /\ DottedFlat(flat) = UserDotFlat
    /\ out = UserDoc

ReadmeFlat ==
    M((<<"person", ".", "name">> :> S("John Doe"))
      @@ (<<"person", ".", "addresses", ".", "0", ".", "type">> :> S("home"))
      @@ (<<"person", ".", "addresses", ".", "0", ".", "street">> :> S("123 Main St")))

\* C8: under default options the flat form of the README document is exactly
\* its three dotted keys with their values, and unflattening it gives back the
\* document.
C8_ReadmeExample ==
    (doc = ReadmeDoc /\ DefaultRun)
    => /\ pc \in {"flat", "done"} => flat = ReadmeFlat
       /\ pc = "done" => out = ReadmeDoc

\* the README document after its round trip
C8_Witness ==
    /\ pc = "done" /\ doc = ReadmeDoc /\ DefaultRun
    /\ flat = ReadmeFlat /\ out = ReadmeDoc

-----------------------------------------------------------------------------
(* Properties of the batch coordinator.                                     *)

\* the files of the directory whose processing does not succeed
FailedFiles ==
    {i \in 1..Len(jsonFiles) :
        \A r \in ProcessFileWithOptions(i, jsonFiles[i], unflatten) : r.err # NilErr}

\* the call has returned or the process has died
BatchEnded == mpc = "returned" \/ crashed

\* C9: when the call on a directory of N files has ended, every file that does
\* not fail has been written, exactly the k failing files have been counted as
\* errors, and the call has returned "<k> files failed to process" when
\* k >= 1 and nil when k = 0.
C9_PartialFailure ==
    (BatchEnded /\ inputDir = "ok" /\ jsonFiles # <<>>)
    => /\ \A i \in 1..Len(jsonFiles) : i \notin FailedFiles => outputs[i] # None
       /\ errorCount = Cardinality(FailedFiles)
       /\ ret = IF FailedFiles = {} THEN NilErr
                ELSE BatchErr(Cardinality(FailedFiles))

\* C10: no failing file ends the run of the others, and the call has counted a
\* result, success or failure, for every file when it returns.
C10_FailureIsolation ==
    inputDir = "ok"
    => /\ ~crashed
       /\ mpc = "returned" => successCount + errorCount = Len(jsonFiles)

-----------------------------------------------------------------------------
(* Further properties of flatten.                                           *)

\* v is a scalar, an empty map or an empty sequence
IsLeaf(v) == (IsMap(v) => v = EmptyMap) /\ (IsArr(v) => v = EmptyArr)

\* flatten runs without a depth limit and descends into sequences
FullFlatten == fopts.MaxDepth = -1 /\ fopts.IncludeArrayIndices

\* C11: with MaxDepth = -1 and IncludeArrayIndices, every value of the flat
\* map is a scalar, an empty map or an empty sequence.
C11_FlatOutputShape ==
    (pc \in {"flat", "done"} /\ IsMap(doc) /\ FullFlatten)
    => \A key \in DOMAIN flat.v : IsLeaf(flat.v[key])

\* {a: [["x"]]}, a sequence inside a sequence, flattened to {"a.0.0": "x"}
C11_Witness ==
    /\ pc = "flat" /\ fopts = DefaultFlattenOptions
    /\ doc = M(<<"a">> :> A(<< A(<< S("x") >>) >>))
    /\ flat = M(<<"a", ".", "0", ".", "0">> :> S("x"))

\* the number of leaves (scalars and empty containers) below the container v
RECURSIVE LeafCount(_)
RECURSIVE LeafSum(_, _)
LeafSum(q, i) ==
    IF i > Len(q) THEN 0
    ELSE (IF IsLeaf(q[i]) THEN 1 ELSE LeafCount(q[i])) + LeafSum(q, i + 1)

\* the values of the map m as a sequence, in some order
RECURSIVE ValueSeq(_, _)
ValueSeq(m, todo) ==
    IF todo = {} THEN <<>>
    ELSE LET key == CHOOSE x \in todo : TRUE
         IN  <<m.v[key]>> \o ValueSeq(m, todo \ {key})

LeafCount(v) ==
    IF IsMap(v) THEN LeafSum(ValueSeq(v, DOMAIN v.v), 1) ELSE LeafSum(v.v, 1)

\* C12: without a depth limit the flat map has one entry for every leaf of the
\* document: distinct leaf paths get distinct flat keys.
C12_KeyUniqueness ==
    (pc \in {"flat", "done"} /\ IsMap(doc) /\ FullFlatten)
    => Cardinality(DOMAIN flat.v) = LeafCount(doc)

\* C13: FlattenMapWithOptions has one outcome for a document and options,
\* whatever the order in which the entries of each map are visited.
C13_FlattenDeterminism ==
    IsMap(doc) => Cardinality(FlattenMapWithOptions(doc, <<>>, fopts)) = 1

-----------------------------------------------------------------------------
(* Properties of package i18n.                                              *)

\* the key sequences that lead through maps of m to an existing entry
RECURSIVE ExistingPaths(_)
ExistingPaths(m) ==
    UNION { {<<key>>}
            \cup (IF IsMap(m.v[key])
                  THEN {<<key>> \o p : p \in ExistingPaths(m.v[key])}
                  ELSE {})
            : key \in DOMAIN m.v }

\* the keys of parts joined by sep
RECURSIVE JoinPath(_, _)
JoinPath(parts, sep) ==
    IF Len(parts) = 1 THEN parts[1]
    ELSE parts[1] \o <<sep>> \o JoinPath(Tail(parts), sep)

\* m without the entry at parts and without the maps the removal left empty
RECURSIVE Pruned(_, _)
Pruned(m, parts) ==
    IF Len(parts) = 1 THEN MapDel(m, parts[1])
    ELSE LET child == Pruned(m.v[parts[1]], Tail(parts))
         IN  IF child = EmptyMap THEN MapDel(m, parts[1])
             ELSE MapPut(m, parts[1], child)

Elements(q) == {q[i] : i \in 1..Len(q)}

\* C15: missingInJSON holds exactly the keys of sourceKeys that are not keys of
\* jsonKeys, unusedInSource exactly the keys of jsonKeys that are not keys of
\* sourceKeys, each key once.
C15_CompareKeys ==
    (ipc = "done" /\ jsonObj = None)
    => /\ Elements(missingInJSON) = DOMAIN sourceKeys \ DOMAIN jsonKeys
       /\ Len(missingInJSON) = Cardinality(Elements(missingInJSON))
       /\ Elements(unusedInSource) = DOMAIN jsonKeys \ DOMAIN sourceKeys
       /\ Len(unusedInSource) = Cardinality(Elements(unusedInSource))

\* source keys {a, a.b} against JSON keys {a.b, b}
C15_Witness ==
    /\ ipc = "done" /\ jsonObj = None
    /\ DOMAIN sourceKeys = {<<"a">>, <<"a", ".", "b">>}
    /\ DOMAIN jsonKeys = {<<"a", ".", "b">>, <<"b">>}
    /\ missingInJSON = << <<"a">> >>
    /\ unusedInSource = << <<"b">> >>

-----------------------------------------------------------------------------
(* Properties of package api.                                               *)

\* the request carries an arrayFormat that is neither empty nor a format
InvalidArrayFormat ==
    /\ request # None /\ request.Method = "POST" /\ request.Decodes
    /\ request.Data # Nil
    /\ request.ArrayFormat \notin {"", "index", "bracket"}

\* the answers a server started with the default options gives
DefaultResponses ==
    Responses(StartServerWithOptions(ServerOptions("index")),
              [request EXCEPT !.ArrayFormat = ""])

\* C16: a request whose arrayFormat is not empty and is neither "index" nor
\* "bracket" is answered with success = true and a warning message, and its
\* data is processed with the array format "index" whatever format the
\* server was started with.
C16_InvalidArrayFormatFallsBack ==
    (InvalidArrayFormat /\ response # None)
    => /\ response.Success
       /\ response.Message = InvalidFormatWarning
       /\ \E r \in DefaultResponses : response.Data = r.Data

-----------------------------------------------------------------------------
(* Properties of UnflattenMapWithOptions.                                   *)

\* the flat map has the single entry key -> value
OnlyEntry(m, key) == DOMAIN m.v = {key}

\* the value stored under the first of parts when the last of parts holds
\* value itself: a sequence where the next segment is an index, else a map
RECURSIVE Stored(_, _)
Stored(parts, value) ==
    IF Len(parts) = 1 THEN value
    ELSE LET conv == Atoi(parts[2])
             below == Stored(Tail(parts), value)
         IN  IF conv.ok /\ conv.n >= 0
             THEN A([Pad(<<>>, conv.n) EXCEPT ![conv.n + 1] = below])
             ELSE M(parts[2] :> below)

\* C17: when the final segment of a key is reached its literal value is
\* stored in its container, in a sequence slot when the segment is an index
\* ("a.0" with value v puts v at index 0 of the sequence a) and in a map
\* entry otherwise; no value is dropped or replaced by an empty map.
C17_LeafAssignment ==
    (pc = "done" /\ doc = None /\ uopts.DetectArrays /\ out # Panic)
    => \A key \in DOMAIN flat.v :
          OnlyEntry(flat, key)
          => LET parts == Split(processedKey(key, uopts))
             IN  out = M(parts[1] :> Stored(parts, flat.v[key]))

\* the shape the first segment's slot must have for the key with these parts
Demand(parts) ==
    IF Len(parts) = 1 THEN "leaf"
    ELSE IF uopts.DetectArrays /\ Atoi(parts[2]).ok THEN "sequence"
    ELSE "map"

\* key2 needs the slot of the first segment to be a sequence or a map and
\* key1 has left a value of another shape there
Conflict(key1, key2) ==
    LET parts1 == Split(processedKey(key1, uopts))
        parts2 == Split(processedKey(key2, uopts))
    IN  /\ parts1[1] = parts2[1]
        /\ Demand(parts2) \in {"sequence", "map"}
        /\ Demand(parts1) # Demand(parts2)

\* obj after the entry of key has been assigned
Assigned(obj, key) ==
    assignToNested(obj, Split(processedKey(key, uopts)), flat.v[key], uopts)

\* C18: when a later key needs a slot to be a sequence while it holds a map
\* or a scalar, or a map while it holds a sequence or a scalar, the slot is
\* replaced by a fresh container of that shape: after both assignments only
\* the structure of the later key is present at the slot.
C18_LastWriterWins ==
    (pc = "done" /\ doc = None)
    => \A key1, key2 \in DOMAIN flat.v :
          (DOMAIN flat.v = {key1, key2} /\ Conflict(key1, key2))
          => LET both == Assigned(Assigned(EmptyMap, key1), key2)
                 slot == Split(processedKey(key2, uopts))[1]
             IN  /\ both # Panic
                 /\ both.v[slot] = Assigned(EmptyMap, key2).v[slot]
                 /\ out \in UnflattenMapWithOptions(M(key1 :> flat.v[key1]), uopts)
                            \cup UnflattenMapWithOptions(M(key2 :> flat.v[key2]), uopts)

\* the keys of m are exactly "0", "1", ..., with no gap, and m is not empty
DenseIndexKeys(m) ==
    /\ DOMAIN m.v # {}
    /\ DOMAIN m.v = {Itoa(i) : i \in 0..(Cardinality(DOMAIN m.v) - 1)}

\* value after the promotion rule has been applied at every level below it
\* and, unless it is the root, to value itself
RECURSIVE Promoted(_, _)
Promoted(value, root) ==
    IF IsMap(value)
    THEN LET below == M([key \in DOMAIN value.v |-> Promoted(value.v[key], FALSE)])
         IN  IF ~root /\ DenseIndexKeys(below)
             THEN A([i \in 1..Cardinality(DOMAIN below.v) |-> below.v[Itoa(i - 1)]])
             ELSE below
    ELSE IF IsArr(value)
    THEN A([i \in 1..Len(value.v) |-> Promoted(value.v[i], FALSE)])
    ELSE value

\* C19: in the final pass a nested map is replaced by a sequence if and only
\* if it is not empty and its keys are exactly "0", "1", ..., "maxIndex" with
\* no gap; the sequence holds at position i the value of key i. Other maps
\* stay maps, and the rule is applied at every level, maps that are
\* elements of sequences included.
C19_PromotionRule ==
    (pc = "done" /\ doc = None /\ uopts.DetectArrays /\ out # Panic)
    => out \in {Promoted(r, TRUE) : r \in assignedResults(flat, uopts) \ {Panic}}

\* v holds a sequence
RECURSIVE HasSequence(_)
HasSequence(v) ==
    IF IsArr(v) THEN TRUE
    ELSE IF IsMap(v) THEN \E key \in DOMAIN v.v : HasSequence(v.v[key])
    ELSE FALSE

\* nested maps along the segments parts, value in the last of them
RECURSIVE MapPath(_, _)
MapPath(parts, value) ==
    IF Len(parts) = 1 THEN M(parts[1] :> value)
    ELSE M(parts[1] :> MapPath(Tail(parts), value))

\* C20: with DetectArrays = false no sequence is created from key segments:
\* every numeric segment is a string map key, during the assignments and
\* after the final pass, so {"a.0": v, "a.1": w} gives a map a with the keys
\* "0" and "1".
C20_NoArraysWithoutDetection ==
    (pc = "done" /\ doc = None /\ ~uopts.DetectArrays)
    => /\ out # Panic /\ ~HasSequence(out)
       /\ \A key \in DOMAIN flat.v :
             OnlyEntry(flat, key)
             => out = MapPath(Split(processedKey(key, uopts)), flat.v[key])
       /\ flat = FlatA01
          => out = M(<<"a">> :> M((<<"0">> :> S("x")) @@ (<<"1">> :> S("y"))))

C20_Witness ==
    /\ pc = "done" /\ ~uopts.DetectArrays /\ flat = FlatA01
    /\ out = M(<<"a">> :> M((<<"0">> :> S("x")) @@ (<<"1">> :> S("y"))))

-----------------------------------------------------------------------------
(* Depth accounting of flatten.                                             *)

RECURSIVE Uniform(_, _, _)
RECURSIVE UniformMap(_, _, _, _)
RECURSIVE UniformArr(_, _, _, _)

\* the flat entries of the container v reached at depth under the key
\* prefix, when maps and arrays alike count one level and are cut alike
Uniform(v, prefix, depth) ==
    IF fopts.MaxDepth >= 0 /\ depth > fopts.MaxDepth THEN prefix :> v
    ELSE IF IsMap(v) THEN UniformMap(v, DOMAIN v.v, prefix, depth)
    ELSE UniformArr(v, 1, prefix, depth)

UniformMap(m, todo, prefix, depth) ==
    IF todo = {} THEN <<>>
    ELSE LET key == CHOOSE x \in todo : TRUE
             value == m.v[key]
         IN  (IF IsLeaf(value) THEN fullKey(prefix, key) :> value
              ELSE Uniform(value, fullKey(prefix, key), depth + 1))
             @@ UniformMap(m, todo \ {key}, prefix, depth)

UniformArr(arr, pos, prefix, depth) ==
    IF pos > Len(arr.v) THEN <<>>
    ELSE LET item == arr.v[pos]
         IN  (IF IsLeaf(item) THEN indexedKey(prefix, pos - 1, fopts) :> item
              ELSE Uniform(item, indexedKey(prefix, pos - 1, fopts), depth + 1))
             @@ UniformArr(arr, pos + 1, prefix, depth)

\* C21: the depth counter grows by one on every descent into a nested map
\* and on every descent into a nested array, and once the MaxDepth budget is
\* used up the whole subtree (map or array) is stored as one leaf under its
\* current key: subtrees reached through arrays are cut at the same level as
\* subtrees reached through maps.
C21_UniformDepth ==
    (pc \in {"flat", "done"} /\ IsMap(doc) /\ KeysPlain(doc, TRUE)
        /\ fopts.IncludeArrayIndices)
    => flat = M(Uniform(doc, <<>>, 0))

-----------------------------------------------------------------------------
(* Padding of sparse sequences.                                             *)

\* the flat map {"a.1.b": "x"}
FlatSparse == M(<<"a", ".", "1", ".", "b">> :> S("x"))

\* v holds a nil element
RECURSIVE HasNil(_)
HasNil(v) ==
    IF v = Nil THEN TRUE
    ELSE IF IsMap(v) THEN \E key \in DOMAIN v.v : HasNil(v.v[key])
    ELSE IF IsArr(v) THEN \E i \in 1..Len(v.v) : HasNil(v.v[i])
    ELSE FALSE

\* C22: a key whose index segment is N for a slot that is absent or shorter
\* grows the sequence to at least N+1 elements, and the slots created without
\* a value hold an absent marker, not a null that shows up as a leaf of the
\* result.
C22_SparsePadding ==
    (pc = "done" /\ doc = None /\ uopts.DetectArrays /\ out # Panic)
    => /\ flat = FlatSparse => (IsArr(out.v[<<"a">>]) /\ Len(out.v[<<"a">>].v) >= 2)
       /\ ~HasNil(out)
       /\ \A f \in FlattenMap(out, <<>>) : \A key \in DOMAIN f.v : f.v[key] # Nil

-----------------------------------------------------------------------------
(* Further properties of the batch coordinator.                             *)

\* C23: for every number N >= 1 of .json files and every worker count (fewer
\* than N, N, more than N, not positive) the call drains all results and
\* returns, unless a transform does not return (it panics): no worker stays
\* blocked on sending a result and the collector does not wait forever.
C23_BatchFinishes == <>(mpc = "returned" \/ crashed)

\* two files handled by one worker (Workers = 0), all results collected
C23_Witness ==
    /\ mpc = "returned" /\ workers = 0 /\ Len(jsonFiles) = 2
    /\ successCount + errorCount = 2
    /\ resultsChan = <<>> /\ \A w \in DOMAIN wpc : wpc[w] = "exited"

\* the workers that hold a file: processing it or about to send its result
Holding == {w \in DOMAIN wpc : wpc[w] \in {"process", "send"}}

\* the files on their way: queued, held by a worker, or reported and not yet
\* collected
RECURSIVE HeldFiles(_)
HeldFiles(ws) ==
    IF ws = {} THEN <<>>
    ELSE LET w == CHOOSE x \in ws : TRUE
         IN  <<wfile[w]>> \o HeldFiles(ws \ {w})

OnTheWay ==
    filesChan \o HeldFiles(Holding)
    \o [i \in 1..Len(resultsChan) |-> resultsChan[i].filename]

\* C24: every discovered .json file is taken by exactly one worker and yields
\* exactly one result: no file is on its way twice, every file sent to the
\* workers is queued, held, reported or counted, and when the call returns
\* successCount + errorCount is the number of .json files.
C24_ExactlyOnce ==
    (inputDir = "ok" /\ jsonFiles # <<>> /\ mpc \notin {"start", "spawn"})
    => /\ \A i, j \in 1..Len(OnTheWay) : OnTheWay[i] = OnTheWay[j] => i = j
       /\ Len(OnTheWay) + successCount + errorCount = sent
       /\ mpc = "returned" => successCount + errorCount = Len(jsonFiles)

\* two files, two workers, both results counted at the return
C24_Witness ==
    /\ mpc = "returned" /\ inputDir = "ok" /\ Len(jsonFiles) = 2 /\ workers = 2
    /\ successCount + errorCount = 2

\* the workers that are inside ProcessFileWithOptions
Processing == {w \in DOMAIN wpc : wpc[w] = "process"}

\* C25: at every moment the number of files being processed at once is at
\* most the configured Workers, a value <= 0 counting as 1.
C25_BoundedPool ==
    Cardinality(Processing) <= (IF workers <= 0 THEN 1 ELSE workers)

\* both workers of a pool of two are processing a file
C25_Witness == workers = 2 /\ Cardinality(Processing) = 2

\* C26: the results channel is closed only after every worker has exited: no
\* worker is left to send on the closed channel, and the collector's loop
\* ends only when every result has been received.
C26_CloseAfterWorkers ==
    /\ resultsClosed => \A w \in DOMAIN wpc : wpc[w] = "exited"
    /\ (mpc = "returned" /\ inputDir = "ok" /\ jsonFiles # <<>>)
       => (resultsClosed /\ resultsChan = <<>> /\ Holding = {})

\* the channel is closed while results still wait to be collected
C26_Witness ==
    /\ resultsClosed /\ resultsChan # <<>> /\ mpc = "collect"
    /\ \A w \in DOMAIN wpc : wpc[w] = "exited"

\* the files a worker can be handed
FileContents == {EmptyMap, PlainData, NegativeIndexData}

\* C27: when reading or parsing the input file fails, ProcessFileWithOptions
\* returns an error that names the input path, runs no transform and writes
\* no output file; when writing fails it returns an error that names the
\* output path.
C27_ErrorsNameThePath ==
    \A w \in DOMAIN wpc :
       wpc[w] = "send"
       => LET file == jsonFiles[wfile[w]] IN
          /\ ~file.readable
             => /\ werr[w] = [k |-> "readErr",
                              v |-> <<"failed to read input file",
                                      <<"inputDir", wfile[w]>> >>]
                /\ outputs[wfile[w]] = None
                /\ \A d \in FileContents :
                      ProcessFileWithOptions(wfile[w], [file EXCEPT !.data = d], unflatten)
                      = {[err |-> werr[w], wrote |-> None]}
          /\ (file.readable /\ ~file.writable)
             => /\ werr[w] = [k |-> "writeErr",
                              v |-> <<"failed to write output file",
                                      <<"outputDir", wfile[w]>> >>]
                /\ outputs[wfile[w]] = None

\* one worker reports a read error while another reports a write error
C27_Witness ==
    \E w1, w2 \in DOMAIN wpc :
       /\ wpc[w1] = "send" /\ werr[w1].k = "readErr"
       /\ wpc[w2] = "send" /\ werr[w2].k = "writeErr"

-----------------------------------------------------------------------------
(* Further properties of RemoveKeysFromPath.                                *)

\* C28: RemoveKeysFromPath returns false and leaves the document unchanged
\* when the key path is empty, when a segment of the path does not exist, or
\* when an intermediate segment holds a value that is not a map.
C28_FailedRemovalChangesNothing ==
    (ipc \in {"again", "done"} /\ before # None)
    => LET parts == splitKeyPath(keyPath, separator)
       IN  (parts = <<>> \/ parts \notin ExistingPaths(before))
           => (removed = FALSE /\ jsonObj = before)

\* "a.b.a" on {a: {b: "x"}}: the intermediate segment b holds a scalar
C28_Witness ==
    /\ ipc = "again" /\ separator = "."
    /\ before = M(<<"a">> :> M(<<"b">> :> S("x")))
    /\ keyPath = <<"a", ".", "b", ".", "a">>
    /\ removed = FALSE /\ jsonObj = before

\* the call before this state removed the only entry b of the map under a
RemovedOnlyEntry ==
    /\ ipc = "again" /\ before # None /\ removed = TRUE
    /\ keyPath = <<"a", separator, "b">>
    /\ Has(before, <<"a">>) /\ IsMap(before.v[<<"a">>])
    /\ DOMAIN before.v[<<"a">>].v = {<<"b">>}

-----------------------------------------------------------------------------
(* Order independence of unflatten.                                         *)

\* the segments of a flat key as UnflattenMapWithOptions sees them
Segments(key) == Split(processedKey(key, uopts))

\* p is the beginning of q
IsPrefix(p, q) == Len(p) <= Len(q) /\ SubSeq(q, 1, Len(p)) = p

\* the segment s is taken for an index
Numeric(s) == uopts.DetectArrays /\ Atoi(s).ok

\* the paths of two keys leave a shared prefix with segments of which one is
\* numeric and the other is not
Disagree(p, q) ==
    \E i \in 1..Len(p) :
       /\ i <= Len(q)
       /\ SubSeq(p, 1, i - 1) = SubSeq(q, 1, i - 1)
       /\ Numeric(p[i]) # Numeric(q[i])

\* no path is a prefix of another and no two paths disagree
ConflictFree(m) ==
    \A key1, key2 \in DOMAIN m.v :
       key1 # key2
       => /\ ~IsPrefix(Segments(key1), Segments(key2))
          /\ ~Disagree(Segments(key1), Segments(key2))

\* C30: for a flat map in which no key's segment path is a prefix of another
\* key's path and no two keys disagree on whether the segment after a shared
\* prefix is numeric, UnflattenMapWithOptions returns the same document for
\* every order in which the keys and the entries of the nested maps are
\* processed.
C30_OrderIndependence ==
    (pc \in {"flat", "done"} /\ doc = None /\ ConflictFree(flat))
    => Cardinality(UnflattenMapWithOptions(flat, uopts)) = 1

====
